---- MODULE Spec2Model ----
(***************************************************************************)
(* Work-item tools of src/ado_integration_tool.py run against a model of   *)
(* the remote work-tracking service.  Text is a sequence of tokens: the    *)
(* characters the code splits or searches on ("#", ":", " ", the newline,  *)
(* the bullet and the two status markers) are tokens of their own, type    *)
(* names and filters are spelled letter by letter, and every other token   *)
(* is a word that contains none of those characters.                       *)
(***************************************************************************)
EXTENDS Integers, Sequences, FiniteSets, TLC

VARIABLES items, bulk, last, hashseed, requests, requirements_md, flows

vars == <<items, bulk, last, hashseed, requests, requirements_md, flows>>

(* ---------------------------- bounds ----------------------------------- *)

MaxItems == 3

(* A project holds at most MaxItems work items, of which at most           *)
(* MaxPerType are of one type.                                             *)
MaxPerType == MaxItems - 2

(* The requests one server process receives.                               *)
MaxRequests == 3

(* ---------------------------- text ------------------------------------- *)

OkMark == "(check-mark)"
ErrMark == "(cross-mark)"
Bullet == "(bullet)"
FoundMark == "(magnifier)"
NL == "(newline)"
SP == " "

Whitespace == {SP, NL}

DigitTok == <<"0", "1", "2", "3", "4", "5", "6", "7", "8", "9">>

DigitVal(c) == CHOOSE d \in 0..9 : DigitTok[d + 1] = c

IsDigit(c) == \E d \in 0..9 : DigitTok[d + 1] = c

RECURSIVE Str(_)
Str(n) == IF n < 10 THEN <<DigitTok[n + 1]>> ELSE Str(n \div 10) \o <<DigitTok[(n % 10) + 1]>>

RECURSIVE IntValue(_)
IntValue(t) == IF Len(t) = 1 THEN DigitVal(t[1])
               ELSE 10 * IntValue(SubSeq(t, 1, Len(t) - 1)) + DigitVal(t[Len(t)])

CanInt(t) == Len(t) > 0 /\ \A k \in 1..Len(t) : IsDigit(t[k])

LowerChar(c) == CASE c = "F" -> "f"
                  [] c = "U" -> "u"
                  [] c = "S" -> "s"
                  [] c = "T" -> "t"
                  [] OTHER -> c

Lower(t) == [k \in 1..Len(t) |-> LowerChar(t[k])]

Contains(t, sub) == \E k \in 0..(Len(t) - Len(sub)) : SubSeq(t, k + 1, k + Len(sub)) = sub

HasToken(t, c) == \E k \in 1..Len(t) : t[k] = c

RECURSIVE Split(_, _)
Split(t, c) == IF ~HasToken(t, c) THEN <<t>>
               ELSE LET k == CHOOSE j \in 1..Len(t) : t[j] = c /\ \A h \in 1..(j - 1) : t[h] # c
                    IN <<SubSeq(t, 1, k - 1)>> \o Split(SubSeq(t, k + 1, Len(t)), c)

RECURSIVE LStrip(_)
LStrip(t) == IF Len(t) > 0 /\ t[1] \in Whitespace THEN LStrip(Tail(t)) ELSE t

RECURSIVE RStrip(_)
RStrip(t) == IF Len(t) > 0 /\ t[Len(t)] \in Whitespace THEN RStrip(SubSeq(t, 1, Len(t) - 1)) ELSE t

Strip(t) == RStrip(LStrip(t))

StartsWith(t, c) == Len(t) > 0 /\ t[1] = c

RECURSIVE Remove(_, _)
Remove(t, c) == IF t = <<>> THEN <<>>
                ELSE IF t[1] = c THEN Remove(Tail(t), c) ELSE <<t[1]>> \o Remove(Tail(t), c)

RECURSIVE Join(_, _)
Join(ts, sep) == IF ts = <<>> THEN <<>>
                 ELSE IF Len(ts) = 1 THEN ts[1]
                 ELSE ts[1] \o sep \o Join(Tail(ts), sep)

RECURSIVE Flatten(_)
Flatten(ts) == IF ts = <<>> THEN <<>> ELSE ts[1] \o Flatten(Tail(ts))

(* ---------------------------- remote service --------------------------- *)

Feature == "Feature"
UserStory == "User Story"
Task == "Task"

TypeName(type) == CASE type = Feature -> <<"F", "e", "a", "t", "u", "r", "e">>
                    [] type = UserStory -> <<"U", "s", "e", "r", SP, "S", "t", "o", "r", "y">>
                    [] type = Task -> <<"T", "a", "s", "k">>

NoParent == 0

InitialState == "New"

(* Outcomes of one remote exchange: "ok" is answered with status 200 and a *)
(* JSON body, "malformed" with status 200 and a body that is not the       *)
(* expected JSON, the Rejections with another status and the request not   *)
(* applied, and "exc" is not answered at all (the request raises).         *)
Rejections == {"err", "accepted"}

StatusOf(o) == CASE o = "err" -> 500
                 [] o = "accepted" -> 202
                 [] OTHER -> 200

NoResponse == 0

Ids(its) == 1..Len(its)

CountOf(its, type) == Cardinality({k \in Ids(its) : its[k].type = type})

RECURSIVE Ascending(_)
Ascending(S) == IF S = {} THEN <<>>
                ELSE LET m == CHOOSE x \in S : \A y \in S : x <= y
                     IN <<m>> \o Ascending(S \ {m})

Children(its, p) == {c \in Ids(its) : its[c].parent = p}

(* The service applies a patch document as a whole: a relation to a work   *)
(* item that does not exist rejects the document and nothing is created.   *)
RemoteCreate(its, type, doc, o, body) ==
    IF o \in Rejections THEN [status |-> StatusOf(o), text |-> body, id |-> 0, items |-> its]
    ELSE IF doc.parent # NoParent /\ doc.parent \notin Ids(its)
         THEN [status |-> 404, text |-> body, id |-> 0, items |-> its]
    ELSE [status |-> 200, text |-> body, id |-> Len(its) + 1,
          items |-> Append(its, [type |-> type, title |-> doc.title, desc |-> doc.desc,
                                 tags |-> doc.tags, state |-> InitialState,
                                 parent |-> doc.parent])]

(* A patch document is the record of the fields it writes.                 *)
RemotePatch(its, id, doc, o, body) ==
    IF o \in Rejections THEN [status |-> StatusOf(o), text |-> body, items |-> its]
    ELSE IF id \notin Ids(its) THEN [status |-> 404, text |-> body, items |-> its]
    ELSE [status |-> 200, text |-> body,
          items |-> [its EXCEPT ![id] = [f \in DOMAIN @ |-> IF f \in DOMAIN doc THEN doc[f] ELSE @[f]]]]

Request(method, target, item, parent, value, title) ==
    [method |-> method, target |-> target, item |-> item, parent |-> parent, value |-> value,
     title |-> title]

(* ---------------------------- requirements file, connection, search ----- *)

EditUrl(id) == <<"https", ":", "//dev.azure.com/agentic-framework-hackathon/Agentic",
                 SP, "Framework/_workitems/edit/">> \o Str(id)

(* The carriage return; NL is the line feed.                               *)
CR == "(carriage-return)"

(* The working directory holds no requirements.md; linesep is the line     *)
(* separator of the platform the process runs on.                          *)
NoFile == [kind |-> "missing", content |-> <<>>, linesep |-> <<NL>>]

RequirementsFile == <<"requirements.md">>

(* Text written through a file opened in text mode: every line feed is     *)
(* written as the platform's line separator.                               *)
RECURSIVE WriteText(_, _)
WriteText(t, linesep) ==
    IF t = <<>> THEN <<>>
    ELSE (IF t[1] = NL THEN linesep ELSE <<t[1]>>) \o WriteText(Tail(t), linesep)

(* Text read through a file opened in text mode: a carriage return, alone  *)
(* or followed by a line feed, is read as one line feed.                   *)
RECURSIVE ReadText(_)
ReadText(t) ==
    IF t = <<>> THEN <<>>
    ELSE IF t[1] = CR
    THEN IF Len(t) > 1 /\ t[2] = NL
         THEN <<NL>> \o ReadText(SubSeq(t, 3, Len(t)))
         ELSE <<NL>> \o ReadText(Tail(t))
    ELSE <<t[1]>> \o ReadText(Tail(t))

(* file: what the working directory holds under the name requirements.md.  *)
read_requirements_file(file) ==
    IF file.kind = "missing"
    THEN [ret |-> <<ErrMark, SP, "Requirements file not found", ":", SP>> \o RequirementsFile,
          reqs |-> <<>>, statuses |-> <<>>]
    ELSE IF file.kind = "unreadable"
    THEN [ret |-> <<ErrMark, SP, "Error reading requirements file", ":", SP>> \o file.content,
          reqs |-> <<>>, statuses |-> <<>>]
    ELSE [ret |-> <<OkMark, SP, "Requirements file loaded successfully!", NL, NL, "Content", ":", NL>>
                  \o ReadText(file.content),
          reqs |-> <<>>, statuses |-> <<>>]

(* Variant: the file is opened for appending.                              *)
save_requirements_fileAppend(file, content, o) ==
    IF o = "denied"
    THEN [ret |-> <<ErrMark, SP, "Error saving file", ":", SP, "Permission denied">>, file |-> file]
    ELSE LET written == file.content \o WriteText(content, file.linesep)
         IN [ret |-> <<OkMark, SP, "Requirements file saved successfully!", NL,
                       "File", ":", SP>> \o RequirementsFile
                       \o <<NL, "Size", ":", SP>> \o Str(Len(written)) \o <<SP, "bytes">>,
             file |-> [file EXCEPT !.kind = "present", !.content = written]]

(* o: whether the file can be opened for writing.  Returns the result text *)
(* and the file the working directory holds afterwards.                    *)
save_requirements_file(file, content, o) ==
    IF o = "denied"
    THEN [ret |-> <<ErrMark, SP, "Error saving file", ":", SP, "Permission denied">>, file |-> file]
    ELSE LET written == WriteText(content, file.linesep)
         IN [ret |-> <<OkMark, SP, "Requirements file saved successfully!", NL,
                       "File", ":", SP>> \o RequirementsFile
                       \o <<NL, "Size", ":", SP>> \o Str(Len(written)) \o <<SP, "bytes">>,
             file |-> [file EXCEPT !.kind = "present", !.content = written]]

(* Variant: every 2xx status is taken as success.                          *)
SucceededAny2xx(status) == status \div 100 = 2

Succeeded(status) == status = 200

(* Variant: the request is sent a second time when the first attempt       *)
(* failed.                                                                 *)
test_ado_connectionRetry(o, body) ==
    LET req == Request("GET", "projects", 0, NoParent, "", <<>>)
    IN IF o = "exc"
       THEN [ret |-> <<ErrMark, SP, "Error testing ADO connection", ":", SP>> \o body,
             reqs |-> <<req, req>>, statuses |-> <<NoResponse, NoResponse>>]
       ELSE IF Succeeded(StatusOf(o))
       THEN [ret |-> <<OkMark, SP, "ADO connection successful!", NL, "Organization", ":", SP,
                       "agentic-framework-hackathon", NL, "Project", ":", SP, "Agentic", SP,
                       "Framework">>,
             reqs |-> <<req>>, statuses |-> <<StatusOf(o)>>]
       ELSE [ret |-> <<ErrMark, SP, "ADO connection failed", ":", SP>> \o Str(StatusOf(o))
                     \o <<SP, "-", SP>> \o body,
             reqs |-> <<req, req>>, statuses |-> <<StatusOf(o), StatusOf(o)>>]

test_ado_connection(o, body) ==
    LET req == Request("GET", "projects", 0, NoParent, "", <<>>)
    IN IF o = "exc"
       THEN [ret |-> <<ErrMark, SP, "Error testing ADO connection", ":", SP>> \o body,
             reqs |-> <<req>>, statuses |-> <<NoResponse>>]
       ELSE IF Succeeded(StatusOf(o))
       THEN [ret |-> <<OkMark, SP, "ADO connection successful!", NL, "Organization", ":", SP,
                       "agentic-framework-hackathon", NL, "Project", ":", SP, "Agentic", SP,
                       "Framework">>,
             reqs |-> <<req>>, statuses |-> <<StatusOf(o)>>]
       ELSE [ret |-> <<ErrMark, SP, "ADO connection failed", ":", SP>> \o Str(StatusOf(o))
                     \o <<SP, "-", SP>> \o body,
             reqs |-> <<req>>, statuses |-> <<StatusOf(o)>>]

(* Variant: the search is not restricted to one work-item type.            *)
FeaturesNamedAnyType(its, name) ==
    Ascending({f \in Ids(its) : Contains(its[f].title, name)})

(* The Features whose title contains the name, in ascending id order.      *)
FeaturesNamed(its, name) ==
    Ascending({f \in Ids(its) : its[f].type = Feature /\ Contains(its[f].title, name)})

FeatureLines(its, id) ==
    <<"-", SP, "ID", ":", SP>> \o Str(id) \o <<SP, "|", SP, "Title", ":", SP>> \o its[id].title
    \o <<SP, "|", SP, "State", ":", SP, its[id].state, NL, SP, SP, "URL", ":", SP>> \o EditUrl(id)
    \o <<NL, NL>>

check_existing_features(its, name, o1, o2, body) ==
    LET wiql == Request("POST", "wiql", 0, NoParent, "", <<>>)
        work_items == FeaturesNamed(its, name)
        get == Request("GET", "workitems", 0, NoParent, "", <<>>)
        raised == <<ErrMark, SP, "Error checking existing features", ":", SP>> \o body
    IN IF o1 = "exc"
       THEN [ret |-> raised, reqs |-> <<wiql>>, statuses |-> <<NoResponse>>, found |-> <<>>]
       ELSE IF ~Succeeded(StatusOf(o1))
       THEN [ret |-> <<ErrMark, SP, "Could not search features", ":", SP>> \o Str(StatusOf(o1)),
             reqs |-> <<wiql>>, statuses |-> <<StatusOf(o1)>>, found |-> <<>>]
       ELSE IF o1 = "malformed"
       THEN [ret |-> raised, reqs |-> <<wiql>>, statuses |-> <<StatusOf(o1)>>, found |-> <<>>]
       ELSE IF work_items = <<>>
       THEN [ret |-> <<OkMark, SP, "No existing feature found with name containing", SP, "'">>
                     \o name \o <<"'">>,
             reqs |-> <<wiql>>, statuses |-> <<StatusOf(o1)>>, found |-> <<>>]
       ELSE IF o2 = "exc"
       THEN [ret |-> raised, reqs |-> <<wiql, get>>, statuses |-> <<StatusOf(o1), NoResponse>>,
             found |-> <<>>]
       ELSE IF ~Succeeded(StatusOf(o2))
       THEN [ret |-> <<ErrMark, SP, "Could not get feature details", ":", SP>> \o Str(StatusOf(o2)),
             reqs |-> <<wiql, get>>, statuses |-> <<StatusOf(o1), StatusOf(o2)>>, found |-> <<>>]
       ELSE IF o2 = "malformed"
       THEN [ret |-> raised, reqs |-> <<wiql, get>>, statuses |-> <<StatusOf(o1), StatusOf(o2)>>,
             found |-> <<>>]
       ELSE [ret |-> <<FoundMark, SP, "Found", SP>> \o Str(Len(work_items))
                     \o <<SP, "existing features with name containing", SP, "'">> \o name
                     \o <<"'", ":", NL, NL>>
                     \o Flatten([k \in 1..Len(work_items) |-> FeatureLines(its, work_items[k])]),
             reqs |-> <<wiql, get>>, statuses |-> <<StatusOf(o1), StatusOf(o2)>>,
             found |-> work_items]

(* ---------------------------- create tools ------------------------------ *)

FeatureTags == "PowerBI;Fabric;Generated"
StoryTags == "PowerBI;Fabric;Generated"
TaskTags == "PowerBI;Fabric;Generated;Task"

(* Variant: the description field written from the title.                  *)
FeatureDocumentTitleAsDesc(title, desc) ==
    [title |-> title, desc |-> title, tags |-> FeatureTags, parent |-> NoParent]

FeatureDocument(title, desc) ==
    [title |-> title, desc |-> desc, tags |-> FeatureTags, parent |-> NoParent]

(* Variant: the patch document without the parent relation.                *)
StoryDocumentNoLink(title, desc, parent) ==
    [title |-> title, desc |-> desc, tags |-> StoryTags, parent |-> NoParent]

StoryDocument(title, desc, parent) ==
    [title |-> title, desc |-> desc, tags |-> StoryTags, parent |-> parent]

(* Variant: the patch document without the parent relation.                *)
TaskDocumentNoLink(title, desc, parent) ==
    [title |-> title, desc |-> desc, tags |-> TaskTags, parent |-> NoParent]

TaskDocument(title, desc, parent) ==
    [title |-> title, desc |-> desc, tags |-> TaskTags, parent |-> parent]

CreateResult(its, type, label, doc, o, body) ==
    LET req == Request("POST", type, 0, doc.parent, "", doc.title)
        resp == RemoteCreate(its, type, doc, o, body)
        raised == <<ErrMark, SP, "Error creating", SP>> \o label \o <<":", SP>> \o body
    IN IF o = "exc"
       THEN [ret |-> raised, items |-> its, reqs |-> <<req>>, statuses |-> <<NoResponse>>]
       ELSE IF Succeeded(resp.status)
       THEN [ret |-> IF o = "malformed" THEN raised
                     ELSE <<OkMark, SP>> \o label
                          \o <<SP, "created successfully!", NL, "ID", ":", SP>>
                          \o Str(resp.id) \o <<NL, "Title", ":", SP>> \o doc.title
                          \o <<NL, "URL", ":", SP>> \o EditUrl(resp.id),
             items |-> resp.items, reqs |-> <<req>>, statuses |-> <<resp.status>>]
       ELSE [ret |-> <<ErrMark, SP, "Failed to create", SP>> \o label \o <<":", SP>>
                     \o Str(resp.status) \o <<SP, "-", SP>> \o resp.text,
             items |-> its, reqs |-> <<req>>, statuses |-> <<resp.status>>]

create_ado_feature(its, title, desc, o, body) ==
    CreateResult(its, Feature, <<"Feature">>, FeatureDocument(title, desc), o, body)

create_ado_user_story(its, title, desc, parent, o, body) ==
    CreateResult(its, UserStory, <<"User", SP, "Story">>, StoryDocument(title, desc, parent), o, body)

create_ado_task(its, title, desc, parent, o, body) ==
    CreateResult(its, Task, <<"Task">>, TaskDocument(title, desc, parent), o, body)

(* ---------------------------- state update ------------------------------ *)

(* Variant: a request to move an item back to the initial state is         *)
(* rewritten.                                                              *)
UpdateDataNoReopen(new_state) ==
    [state |-> IF new_state = InitialState THEN "Active" ELSE new_state]

(* Variant: the patch document also writes the title.                      *)
UpdateDataWithTitle(new_state) == [state |-> new_state, title |-> <<"Untitled">>]

UpdateData(new_state) == [state |-> new_state]

(* Variant: an item that already has the requested state is reported as a  *)
(* failure.                                                                *)
update_work_item_stateOnce(its, id, state, o, body) ==
    LET req == Request("PATCH", "workItems", id, NoParent, state, <<>>)
        resp == RemotePatch(its, id, UpdateData(state), o, body)
    IN IF o = "exc"
       THEN [ret |-> <<ErrMark, SP, "Error updating work item", ":", SP>> \o body,
             items |-> its, reqs |-> <<req>>, statuses |-> <<NoResponse>>]
       ELSE IF Succeeded(resp.status) /\ o # "malformed" /\ its[id].state # state
       THEN [ret |-> <<OkMark, SP>> \o TypeName(its[id].type)
                     \o <<SP, "updated successfully!", NL, "ID", ":", SP>> \o Str(id)
                     \o <<NL, "Title", ":", SP>> \o its[id].title
                     \o <<NL, "New", SP, "State", ":", SP, state, NL, "URL", ":", SP>>
                     \o EditUrl(id),
             items |-> resp.items, reqs |-> <<req>>, statuses |-> <<resp.status>>]
       ELSE [ret |-> <<ErrMark, SP, "Failed to update work item", ":", SP>>
                     \o Str(resp.status) \o <<SP, "-", SP>> \o resp.text,
             items |-> resp.items, reqs |-> <<req>>, statuses |-> <<resp.status>>]

update_work_item_state(its, id, state, o, body) ==
    LET update_data == UpdateData(state)
        req == Request("PATCH", "workItems", id, NoParent, update_data.state, <<>>)
        resp == RemotePatch(its, id, update_data, o, body)
        raised == <<ErrMark, SP, "Error updating work item", ":", SP>> \o body
    IN IF o = "exc"
       THEN [ret |-> raised, items |-> its, reqs |-> <<req>>, statuses |-> <<NoResponse>>]
       ELSE IF Succeeded(resp.status)
       THEN [ret |-> IF o = "malformed" THEN raised
                     ELSE <<OkMark, SP>> \o TypeName(its[id].type)
                          \o <<SP, "updated successfully!", NL, "ID", ":", SP>> \o Str(id)
                          \o <<NL, "Title", ":", SP>> \o its[id].title
                          \o <<NL, "New", SP, "State", ":", SP, state, NL, "URL", ":", SP>>
                          \o EditUrl(id),
             items |-> resp.items, reqs |-> <<req>>, statuses |-> <<resp.status>>]
       ELSE [ret |-> <<ErrMark, SP, "Failed to update work item", ":", SP>>
                     \o Str(resp.status) \o <<SP, "-", SP>> \o resp.text,
             items |-> its, reqs |-> <<req>>, statuses |-> <<resp.status>>]

(* ---------------------------- descendants query ------------------------ *)

(* Rows of the link query: links whose source is a Feature with a matching *)
(* title.  The service may precede the links of a source by a row whose    *)
(* source is empty and whose target is that source.                        *)
RECURSIVE LinkRowsFrom(_, _, _, _)
LinkRowsFrom(its, name, root, f) ==
    IF f > Len(its) THEN <<>>
    ELSE LET kids == Ascending(Children(its, f))
             rows == IF its[f].type = Feature /\ Contains(its[f].title, name) /\ kids # <<>>
                     THEN (IF root THEN <<[source |-> 0, target |-> f]>> ELSE <<>>)
                          \o [k \in 1..Len(kids) |-> [source |-> f, target |-> kids[k]]]
                     ELSE <<>>
         IN rows \o LinkRowsFrom(its, name, root, f + 1)

RECURSIVE LinkRowsAnyTitle(_, _, _)
LinkRowsAnyTitle(its, root, f) ==
    IF f > Len(its) THEN <<>>
    ELSE LET kids == Ascending(Children(its, f))
             rows == IF its[f].type = Feature /\ kids # <<>>
                     THEN (IF root THEN <<[source |-> 0, target |-> f]>> ELSE <<>>)
                          \o [k \in 1..Len(kids) |-> [source |-> f, target |-> kids[k]]]
                     ELSE <<>>
         IN rows \o LinkRowsAnyTitle(its, root, f + 1)

(* Variant: the link query without the title predicate on the source.      *)
WorkItemRelationsAnyTitle(its, name, root) == LinkRowsAnyTitle(its, root, 1)

WorkItemRelations(its, name, root) == LinkRowsFrom(its, name, root, 1)

RECURSIVE TargetIds(_)
TargetIds(rows) ==
    IF rows = <<>> THEN <<>>
    ELSE (IF rows[1].target # 0 THEN <<rows[1].target>> ELSE <<>>) \o TargetIds(Tail(rows))

ItemLines(its, id) ==
    <<Bullet, SP>> \o TypeName(its[id].type) \o <<SP, "#">> \o Str(id) \o <<":", SP>>
    \o its[id].title \o <<NL, SP, SP, "State", ":", SP, its[id].state, SP, "|", SP,
                          "Assigned", ":", SP, "Unassigned", NL, NL>>

(* rows: the workItemRelations of the link answer; the details answer      *)
(* holds one entry for every id asked for, in the order asked.             *)
QueryRows(its, name, rows, o1, o2, body) ==
    LET wiql == Request("POST", "wiql", 0, NoParent, "", <<>>)
        work_item_ids == TargetIds(rows)
        get == Request("GET", "workitems", 0, NoParent, "", <<>>)
        raised == <<ErrMark, SP, "Error querying work items", ":", SP>> \o body
    IN IF o1 = "exc"
       THEN [ret |-> raised, reqs |-> <<wiql>>, statuses |-> <<NoResponse>>, fetched |-> <<>>]
       ELSE IF ~Succeeded(StatusOf(o1))
       THEN [ret |-> <<ErrMark, SP, "Failed to query work items", ":", SP>> \o Str(StatusOf(o1))
                     \o <<SP, "-", SP>> \o body,
             reqs |-> <<wiql>>, statuses |-> <<StatusOf(o1)>>, fetched |-> <<>>]
       ELSE IF o1 = "malformed"
       THEN [ret |-> raised, reqs |-> <<wiql>>, statuses |-> <<StatusOf(o1)>>, fetched |-> <<>>]
       ELSE IF rows = <<>>
       THEN [ret |-> <<ErrMark, SP, "No work items found for feature", ":", SP>> \o name,
             reqs |-> <<wiql>>, statuses |-> <<StatusOf(o1)>>, fetched |-> <<>>]
       ELSE IF work_item_ids = <<>>
       THEN [ret |-> <<ErrMark, SP, "No child work items found for feature", ":", SP>> \o name,
             reqs |-> <<wiql>>, statuses |-> <<StatusOf(o1)>>, fetched |-> <<>>]
       ELSE IF o2 = "exc"
       THEN [ret |-> raised, reqs |-> <<wiql, get>>, statuses |-> <<StatusOf(o1), NoResponse>>,
             fetched |-> <<>>]
       ELSE IF ~Succeeded(StatusOf(o2))
       THEN [ret |-> <<ErrMark, SP, "Failed to get work item details", ":", SP>>
                     \o Str(StatusOf(o2)) \o <<SP, "-", SP>> \o body,
             reqs |-> <<wiql, get>>, statuses |-> <<StatusOf(o1), StatusOf(o2)>>, fetched |-> <<>>]
       ELSE IF o2 = "malformed"
       THEN [ret |-> raised, reqs |-> <<wiql, get>>, statuses |-> <<StatusOf(o1), StatusOf(o2)>>,
             fetched |-> <<>>]
       ELSE [ret |-> <<OkMark, SP, "Found", SP>> \o Str(Len(work_item_ids))
                     \o <<SP, "work items for feature", SP, "'">> \o name \o <<"'", ":", NL, NL>>
                     \o Flatten([k \in 1..Len(work_item_ids) |-> ItemLines(its, work_item_ids[k])]),
             reqs |-> <<wiql, get>>, statuses |-> <<StatusOf(o1), StatusOf(o2)>>,
             fetched |-> work_item_ids]

query_work_items_by_feature(its, name, o1, root, o2, body) ==
    QueryRows(its, name, WorkItemRelations(its, name, root), o1, o2, body)

(* ---------------------------- bulk update: parsing ---------------------- *)

NoFilter == <<"(None)">>

(* Variant: the filter compared with the whole type name.                  *)
TypeMatchesExact(filter, type) == filter = NoFilter \/ Lower(type) = Lower(filter)

TypeMatches(filter, type) == filter = NoFilter \/ Contains(Lower(type), Lower(filter))

ParseLine(line, filter) ==
    IF ~StartsWith(Strip(line), Bullet) THEN <<>>
    ELSE LET parts == Split(line, "#")
         IN IF Len(parts) <= 1 THEN <<>>
            ELSE LET id_part == Strip(Split(parts[2], ":")[1])
                     work_item_type == Strip(Remove(parts[1], Bullet))
                 IN IF ~CanInt(id_part) THEN <<>>
                    ELSE IF TypeMatches(filter, work_item_type)
                    THEN <<[id |-> IntValue(id_part), type |-> work_item_type]>>
                    ELSE <<>>

RECURSIVE Distinct(_)
Distinct(sel) ==
    IF sel = <<>> THEN <<>>
    ELSE LET front == Distinct(SubSeq(sel, 1, Len(sel) - 1))
             x == sel[Len(sel)]
         IN IF \E k \in DOMAIN front : front[k].id = x.id THEN front ELSE Append(front, x)

(* Variant: an id is selected once however often it is listed.             *)
WorkItemsToUpdateOnce(query_result, filter) ==
    LET lines == Split(query_result, NL)
    IN Distinct(Flatten([k \in 1..Len(lines) |-> ParseLine(lines[k], filter)]))

WorkItemsToUpdate(query_result, filter) ==
    LET lines == Split(query_result, NL)
    IN Flatten([k \in 1..Len(lines) |-> ParseLine(lines[k], filter)])

(* ---------------------------- bulk update: loop ------------------------- *)

Idle == [pc |-> "idle", feature_name |-> <<>>, new_state |-> "", filter |-> NoFilter,
         work_items_to_update |-> <<>>, i |-> 1, results |-> <<>>,
         success_count |-> 0, error_count |-> 0, reqs |-> <<>>, statuses |-> <<>>,
         fetched |-> <<>>, before |-> <<>>, patch_statuses |-> <<>>,
         query |-> [o1 |-> "ok", o2 |-> "ok"]]

NoCall == [op |-> "none", arg |-> [none |-> TRUE], ret |-> <<>>, reqs |-> <<>>,
           statuses |-> <<>>, info |-> [none |-> TRUE]]

StatesOf(its) == [k \in Ids(its) |-> its[k].state]

ResultLine(ok, item, new_state) ==
    IF ok THEN <<OkMark, SP>> \o item.type \o <<SP, "#">> \o Str(item.id)
               \o <<SP, "updated to", SP, new_state>>
    ELSE <<ErrMark, SP>> \o item.type \o <<SP, "#">> \o Str(item.id) \o <<SP, "failed to update">>

(* Variant: the selected items are walked from the last to the first.      *)
CurrentItemReversed(b) == b.work_items_to_update[Len(b.work_items_to_update) - b.i + 1]

CurrentItem(b) == b.work_items_to_update[b.i]

(* Variant: a failed update is neither counted nor listed.                 *)
RecordOutcomeDropFailures(b, update_result) ==
    LET item == CurrentItem(b)
        ok == HasToken(update_result, OkMark)
    IN IF ok THEN [b EXCEPT !.success_count = @ + 1,
                            !.results = Append(@, ResultLine(ok, item, b.new_state))]
       ELSE b

RecordOutcome(b, update_result) ==
    LET item == CurrentItem(b)
        ok == HasToken(update_result, OkMark)
    IN [b EXCEPT !.success_count = IF ok THEN @ + 1 ELSE @,
                 !.error_count = IF ok THEN @ ELSE @ + 1,
                 !.results = Append(@, ResultLine(ok, item, b.new_state))]

(* Variant: the loop stops at the first failed update.                     *)
NextIndexAbort(b, update_result) ==
    IF HasToken(update_result, OkMark) THEN b.i + 1 ELSE Len(b.work_items_to_update) + 1

NextIndex(b, update_result) == b.i + 1

Summary(b) ==
    <<OkMark, SP, "Bulk update completed for feature", SP, "'">> \o b.feature_name
    \o <<"'", ":", NL, Bullet, SP, "Successfully updated", ":", SP>> \o Str(b.success_count)
    \o <<SP, "work items", NL, Bullet, SP, "Failed updates", ":", SP>> \o Str(b.error_count)
    \o <<SP, "work items", NL, Bullet, SP, "New state", ":", SP, b.new_state, NL, NL,
         "Details", ":", NL>> \o Join(b.results, <<NL>>)

BulkInfo(b) == [work_items_to_update |-> b.work_items_to_update, results |-> b.results,
                success_count |-> b.success_count, error_count |-> b.error_count,
                fetched |-> b.fetched, before |-> b.before, summary |-> b.pc = "loop",
                patch_statuses |-> b.patch_statuses, query |-> b.query]

BulkArg(b) == [feature_name |-> b.feature_name, new_state |-> b.new_state, filter |-> b.filter]

(* ---------------------------- inputs ------------------------------------ *)

FeatureInputs == {[title |-> <<"S", "a">>, desc |-> <<"d1">>], [title |-> <<"x">>, desc |-> <<"d2">>]}
StoryTitles == {<<"b", "#", "7", ":">>}
TaskTitles == {<<"S", "w">>}
ChildDescs == {<<"d1">>}
TagInputs == {FeatureTags, "Sales"}
FeatureNames == {<<"S">>, <<"z">>}
NewStates == {"Active", "New"}
BulkStates == {"Active"}
Filters == {NoFilter, <<"s", "t", "o", "r", "y">>, <<"T", "a", "s", "k">>}
ParentArgs == 1..(MaxItems + 1)
IdArgs == 1..MaxItems
ExcMessage == <<"timed out">>
FileStates == {[kind |-> "missing", content |-> <<>>],
               [kind |-> "unreadable", content |-> <<"Permission denied">>],
               [kind |-> "present", content |-> <<"REQ-001", SP, "|", SP, "report">>]}

(* One remote exchange: the service answers, answers with an error status, *)
(* or the request raises.                                                  *)
Replies == {[o |-> "ok", body |-> <<"json">>],
            [o |-> "exc", body |-> ExcMessage],
            [o |-> "malformed", body |-> <<"Expecting value">>],
            [o |-> "err", body |-> <<"error">>],
            [o |-> "accepted", body |-> <<OkMark, SP, "done">>]}

(* The two exchanges of the descendants query; the second is made only     *)
(* after the first succeeded.                                              *)
QueryReplies ==
    {[o1 |-> r.o, o2 |-> "ok", body |-> r.body, root |-> FALSE] : r \in {x \in Replies : x.o # "ok"}}
    \cup {[o1 |-> "ok", o2 |-> r.o, body |-> r.body, root |-> root] : r \in Replies, root \in BOOLEAN}

(* The exchanges of the query a bulk update starts with: each kind of      *)
(* failure once, and the two shapes of a complete answer.                  *)
BulkQueryReplies ==
    {[o1 |-> "err", o2 |-> "ok", body |-> <<"error">>, root |-> FALSE],
     [o1 |-> "malformed", o2 |-> "ok", body |-> <<"Expecting value">>, root |-> FALSE],
     [o1 |-> "ok", o2 |-> "exc", body |-> ExcMessage, root |-> FALSE],
     [o1 |-> "ok", o2 |-> "accepted", body |-> <<OkMark, SP, "done">>, root |-> FALSE]}
    \cup {[o1 |-> "ok", o2 |-> "ok", body |-> <<"json">>, root |-> root] : root \in BOOLEAN}

(* The exchanges of the updates inside a bulk update.                      *)
BulkReplies == {r \in Replies : r.o # "err"}

(* ---------------------------- actions ----------------------------------- *)

Init == /\ items = <<>>
        /\ bulk = Idle
        /\ last = NoCall
        /\ hashseed = 0
        /\ requests = <<>>
        /\ requirements_md = NoFile
        /\ flows = <<>>

Ready == bulk.pc = "idle" /\ last = NoCall

CreateFeature ==
    /\ Ready
    /\ Len(items) < MaxItems
    /\ CountOf(items, Feature) < MaxPerType
    /\ \E inp \in FeatureInputs, tags \in TagInputs, r \in Replies :
         LET res == create_ado_feature(items, inp.title, inp.desc, r.o, r.body)
         IN /\ items' = res.items
            /\ last' = [op |-> "create_ado_feature",
                        arg |-> [title |-> inp.title, desc |-> inp.desc, tags |-> tags,
                                 parent |-> NoParent],
                        ret |-> res.ret, reqs |-> res.reqs, statuses |-> res.statuses,
                        info |-> [before |-> Len(items)]]
    /\ UNCHANGED <<bulk, hashseed, requests, requirements_md, flows>>

CreateUserStory ==
    /\ Ready
    /\ Len(items) < MaxItems
    /\ CountOf(items, UserStory) < MaxPerType
    /\ \E title \in StoryTitles, desc \in ChildDescs, parent \in ParentArgs, r \in Replies :
         LET res == create_ado_user_story(items, title, desc, parent, r.o, r.body)
         IN /\ items' = res.items
            /\ last' = [op |-> "create_ado_user_story",
                        arg |-> [title |-> title, desc |-> desc, tags |-> StoryTags, parent |-> parent],
                        ret |-> res.ret, reqs |-> res.reqs, statuses |-> res.statuses,
                        info |-> [before |-> Len(items)]]
    /\ UNCHANGED <<bulk, hashseed, requests, requirements_md, flows>>

CreateTask ==
    /\ Ready
    /\ Len(items) < MaxItems
    /\ CountOf(items, Task) < MaxPerType
    /\ \E title \in TaskTitles, desc \in ChildDescs, parent \in ParentArgs, r \in Replies :
         LET res == create_ado_task(items, title, desc, parent, r.o, r.body)
         IN /\ items' = res.items
            /\ last' = [op |-> "create_ado_task",
                        arg |-> [title |-> title, desc |-> desc, tags |-> TaskTags, parent |-> parent],
                        ret |-> res.ret, reqs |-> res.reqs, statuses |-> res.statuses,
                        info |-> [before |-> Len(items)]]
    /\ UNCHANGED <<bulk, hashseed, requests, requirements_md, flows>>

UpdateState ==
    /\ Ready
    /\ \E id \in IdArgs, state \in NewStates, r \in Replies :
         LET res == update_work_item_state(items, id, state, r.o, r.body)
         IN /\ items' = res.items
            /\ last' = [op |-> "update_work_item_state",
                        arg |-> [work_item_id |-> id, new_state |-> state],
                        ret |-> res.ret, reqs |-> res.reqs, statuses |-> res.statuses,
                        info |-> [before |-> StatesOf(items), o |-> r.o]]
    /\ UNCHANGED <<bulk, hashseed, requests, requirements_md, flows>>

ReadRequirements ==
    /\ Ready
    /\ \E file \in FileStates :
         LET res == read_requirements_file(file)
         IN last' = [op |-> "read_requirements_file", arg |-> [none |-> TRUE],
                     ret |-> res.ret, reqs |-> res.reqs, statuses |-> res.statuses,
                     info |-> [file |-> file]]
    /\ UNCHANGED <<items, bulk, hashseed, requests, requirements_md, flows>>

TestConnection ==
    /\ Ready
    /\ \E r \in Replies :
         LET res == test_ado_connection(r.o, r.body)
         IN last' = [op |-> "test_ado_connection", arg |-> [none |-> TRUE],
                     ret |-> res.ret, reqs |-> res.reqs, statuses |-> res.statuses,
                     info |-> [none |-> TRUE]]
    /\ UNCHANGED <<items, bulk, hashseed, requests, requirements_md, flows>>

CheckFeatures ==
    /\ Ready
    /\ \E name \in FeatureNames, q \in QueryReplies :
         LET res == check_existing_features(items, name, q.o1, q.o2, q.body)
         IN last' = [op |-> "check_existing_features", arg |-> [feature_name |-> name],
                     ret |-> res.ret, reqs |-> res.reqs, statuses |-> res.statuses,
                     info |-> [found |-> res.found, o1 |-> q.o1]]
    /\ UNCHANGED <<items, bulk, hashseed, requests, requirements_md, flows>>

Query ==
    /\ Ready
    /\ \E name \in FeatureNames, q \in QueryReplies :
         LET res == query_work_items_by_feature(items, name, q.o1, q.root, q.o2, q.body)
         IN last' = [op |-> "query_work_items_by_feature", arg |-> [feature_name |-> name],
                     ret |-> res.ret, reqs |-> res.reqs, statuses |-> res.statuses,
                        info |-> [fetched |-> res.fetched]]
    /\ UNCHANGED <<items, bulk, hashseed, requests, requirements_md, flows>>

(* Variant: the query result is parsed whatever it reports.                *)
IsErrorResultNever(query_result) == FALSE

(* The test the bulk update applies to the text the query returned.        *)
IsErrorResult(query_result) == HasToken(query_result, ErrMark)

(* The call up to its loop: the query result is tested for the error       *)
(* marker, parsed, and the loop is entered when an item was selected.  q   *)
(* names the exchanges the query had with the service.                     *)
StartBulk(name, state, filter, q, query_result) ==
    LET b == [Idle EXCEPT !.feature_name = name, !.new_state = state, !.filter = filter,
                          !.query = [o1 |-> q.o1, o2 |-> q.o2],
                          !.reqs = query_result.reqs, !.statuses = query_result.statuses,
                          !.fetched = query_result.fetched,
                          !.before = StatesOf(items)]
        work_items_to_update == WorkItemsToUpdate(query_result.ret, filter)
    IN IF IsErrorResult(query_result.ret)
       THEN /\ last' = [op |-> "bulk_update_work_items_state", arg |-> BulkArg(b),
                        ret |-> query_result.ret, reqs |-> b.reqs,
                        statuses |-> query_result.statuses, info |-> BulkInfo(b)]
            /\ bulk' = Idle
       ELSE IF work_items_to_update = <<>>
       THEN /\ last' = [op |-> "bulk_update_work_items_state", arg |-> BulkArg(b),
                        ret |-> <<ErrMark, SP, "No work items found to update for feature",
                                  SP, "'">> \o name \o <<"'">>,
                        reqs |-> b.reqs, statuses |-> query_result.statuses,
                        info |-> BulkInfo(b)]
            /\ bulk' = Idle
       ELSE /\ bulk' = [b EXCEPT !.pc = "loop", !.work_items_to_update = work_items_to_update]
            /\ last' = NoCall

BulkStart ==
    /\ Ready
    /\ \E name \in FeatureNames, q \in BulkQueryReplies, state \in BulkStates, filter \in Filters :
         StartBulk(name, state, filter, q,
                   query_work_items_by_feature(items, name, q.o1, q.root, q.o2, q.body))
    /\ UNCHANGED <<items, hashseed, requests, requirements_md, flows>>

BulkStep ==
    /\ bulk.pc = "loop"
    /\ bulk.i <= Len(bulk.work_items_to_update)
    /\ \E r \in BulkReplies :
         LET res == update_work_item_state(items, CurrentItem(bulk).id, bulk.new_state,
                                           r.o, r.body)
             b == RecordOutcome(bulk, res.ret)
         IN /\ items' = res.items
            /\ bulk' = [b EXCEPT !.i = NextIndex(bulk, res.ret), !.reqs = @ \o res.reqs,
                                 !.patch_statuses = @ \o res.statuses]
    /\ UNCHANGED <<last, hashseed, requests, requirements_md, flows>>

BulkReturn ==
    /\ bulk.pc = "loop"
    /\ bulk.i > Len(bulk.work_items_to_update)
    /\ last' = [op |-> "bulk_update_work_items_state", arg |-> BulkArg(bulk),
                ret |-> Summary(bulk), reqs |-> bulk.reqs, statuses |-> bulk.statuses,
                info |-> BulkInfo(bulk)]
    /\ bulk' = Idle
    /\ UNCHANGED <<items, hashseed, requests, requirements_md, flows>>

(* The tool's return value goes back to the caller, which may then call    *)
(* the next tool.                                                          *)
Respond ==
    /\ last # NoCall
    /\ last' = NoCall
    /\ UNCHANGED <<items, bulk, hashseed, requests, requirements_md, flows>>

Next == \/ ReadRequirements
        \/ TestConnection
        \/ CheckFeatures
        \/ CreateFeature
        \/ CreateUserStory
        \/ CreateTask
        \/ UpdateState
        \/ Query
        \/ BulkStart
        \/ BulkStep
        \/ BulkReturn
        \/ Respond

Spec == Init /\ [][Next]_vars

(* ---------------------------- bulk update over any answer --------------- *)

(* The rows one link answer holds.                                         *)
MaxRows == 2

(* A project built with the create tools: a Feature, a User Story below it *)
(* and a Task below the story.                                             *)
Project(story_title, task_title) ==
    LET f == create_ado_feature(<<>>, <<"S", "a">>, <<"d1">>, "ok", <<"json">>).items
        s == create_ado_user_story(f, story_title, <<"d1">>, 1, "ok", <<"json">>).items
    IN create_ado_task(s, task_title, <<"d1">>, 2, "ok", <<"json">>).items

(* Titles with the characters the result text is built from.               *)
OddTitles ==
    {[story |-> <<"b", "#", "7", ":">>, task |-> <<"S", "w">>],
     [story |-> <<"fix", SP, ErrMark, SP, "icon">>, task |-> <<"a", ":", "#", "9", SP, Bullet>>],
     [story |-> <<"x", NL, Bullet, SP, "B", "u", "g", SP, "#", "1", ":", SP, "y">>,
      task |-> <<OkMark, SP, "#">>]}

Projects == {Project(t.story, t.task) : t \in OddTitles}

(* The link answers of the service: rows from the Feature to items below   *)
(* it, in any order and number.                                            *)
RowLists(its) ==
    UNION {[1..n -> {[source |-> 1, target |-> d] : d \in {k \in Ids(its) : its[k].parent # NoParent}}]
             : n \in 1..MaxRows}

InitBulk == /\ items \in Projects
            /\ bulk = Idle
            /\ last = NoCall
            /\ hashseed = 0
            /\ requests = <<>>
            /\ requirements_md = NoFile
            /\ flows = <<>>

BulkStartRows ==
    /\ Ready
    /\ \E rows \in RowLists(items), state \in BulkStates, filter \in Filters :
         StartBulk(<<"S">>, state, filter, [o1 |-> "ok", o2 |-> "ok"], QueryRows(items, <<"S">>, rows, "ok", "ok", <<"json">>))
    /\ UNCHANGED <<items, hashseed, requests, requirements_md, flows>>

NextBulk == \/ BulkStartRows
            \/ BulkStep
            \/ BulkReturn
            \/ Respond

SpecBulk == InitBulk /\ [][NextBulk]_vars

(* ---------------------------- the /ask endpoint ------------------------ *)

(* The string hash of the interpreter: a salted hash of the text, a signed *)
(* integer; the salt is drawn when the server process starts.              *)
HashModulus == 2 ^ 16

WordCode(w) == CASE w = "create" -> 1207
                 [] w = "update" -> 48039
                 [] w = "items" -> 431
                 [] OTHER -> 77

RECURSIVE StrHash(_, _)
StrHash(h, q) == IF q = <<>> THEN h
                 ELSE StrHash((h * 31 + WordCode(q[1])) % HashModulus, Tail(q))

hash(seed, q) == LET h == StrHash(seed, q)
                 IN IF h >= HashModulus \div 2 THEN h - HashModulus ELSE h

ThreadBuckets == 10000

thread_id(seed, query) == <<"thread_">> \o Str(hash(seed, query) % ThreadBuckets)

(* Variant: the key is numbered by the requests received so far.           *)
ask_openaiPerRequest(rs, seed, query) ==
    Append(rs, [query |-> query, thread_id |-> <<"thread_">> \o Str(Len(rs)),
                stage |-> "invoked", result |-> <<>>, response |-> <<>>])

ask_openai(rs, seed, query) ==
    Append(rs, [query |-> query, thread_id |-> thread_id(seed, query),
                stage |-> "invoked", result |-> <<>>, response |-> <<>>])

(* The message classes of the workflow result; a chunk is an AI message.   *)
isinstance(m, class) ==
    \/ m.class = class
    \/ (m.class = "AIMessageChunk" /\ class = "AIMessage")

(* Variant: only the AI messages are serialised.                           *)
RECURSIVE SerializeAIOnly(_)
SerializeAIOnly(result) ==
    IF result = <<>> THEN <<>>
    ELSE IF isinstance(Head(result), "AIMessage")
         THEN <<[type |-> "ai", content |-> Head(result).content]>> \o SerializeAIOnly(Tail(result))
         ELSE SerializeAIOnly(Tail(result))

(* The loop over result["messages"] that builds the response list.         *)
RECURSIVE Serialize(_)
Serialize(result) ==
    IF result = <<>> THEN <<>>
    ELSE LET m == Head(result)
         IN IF isinstance(m, "AIMessage")
            THEN <<[type |-> "ai", content |-> m.content]>> \o Serialize(Tail(result))
            ELSE IF isinstance(m, "ToolMessage")
            THEN <<[type |-> "tool", content |-> m.content]>> \o Serialize(Tail(result))
            ELSE Serialize(Tail(result))

(* What the workflow may hand back for a query.                            *)
Results(query) ==
    LET human == [class |-> "HumanMessage", content |-> query]
        ai(c) == [class |-> "AIMessage", content |-> c]
        tool(c) == [class |-> "ToolMessage", content |-> c]
    IN {<<human, ai(<<"plan">>), tool(<<OkMark, "saved">>), ai(<<"done">>)>>,
        <<human, tool(<<"ok">>), tool(<<"ok">>), [class |-> "AIMessageChunk", content |-> <<"done">>]>>,
        <<human, [class |-> "SystemMessage", content |-> <<"rules">>]>>,
        <<ai(<<"done">>), human, ai(<<"done">>)>>}

HashSeeds == {0, 53, 4099}
Queries == {<<"create", "items">>, <<"update", "items">>, <<"hello">>}

InitAsk == /\ items = <<>>
           /\ bulk = Idle
           /\ last = NoCall
           /\ hashseed \in HashSeeds
           /\ requests = <<>>
           /\ requirements_md = NoFile
           /\ flows = <<>>

Ask ==
    /\ Len(requests) < MaxRequests
    /\ \E query \in Queries : requests' = ask_openai(requests, hashseed, query)
    /\ UNCHANGED <<items, bulk, last, hashseed, requirements_md, flows>>

Answer ==
    /\ \E k \in DOMAIN requests :
         /\ requests[k].stage = "invoked"
         /\ \E result \in Results(requests[k].query) :
              requests' = [requests EXCEPT ![k] =
                             [@ EXCEPT !.stage = "answered", !.result = result,
                                       !.response = Serialize(result)]]
    /\ UNCHANGED <<items, bulk, last, hashseed, requirements_md, flows>>

NextAsk == \/ Ask
           \/ Answer

SpecAsk == InitAsk /\ [][NextAsk]_vars

(* ---------------------------- the requirements document ------------- *)

MaxContent == 2

(* The characters of a document: a word, the line feed, the carriage       *)
(* return.                                                                 *)
ContentChars == {"REQ", NL, CR}

Contents == UNION {[1..n -> ContentChars] : n \in 0..MaxContent}

LineSeps == {<<NL>>, <<CR, NL>>}

SaveOutcomes == {"ok", "denied"}

InitFile == /\ items = <<>>
            /\ bulk = Idle
            /\ last = NoCall
            /\ hashseed = 0
            /\ requests = <<>>
            /\ requirements_md \in {[NoFile EXCEPT !.linesep = l] : l \in LineSeps}
            /\ flows = <<>>

(* What a call knows of the call before it.                                *)
Previous == IF last.op = "save_requirements_file"
            THEN [op |-> last.op, arg |-> last.arg, ret |-> last.ret, before |-> last.info.before]
            ELSE [op |-> last.op]

SaveRequirements ==
    /\ \E content \in Contents, o \in SaveOutcomes :
         LET res == save_requirements_file(requirements_md, content, o)
         IN /\ requirements_md' = res.file
            /\ last' = [op |-> "save_requirements_file", arg |-> [content |-> content],
                        ret |-> res.ret, reqs |-> <<>>, statuses |-> <<>>,
                        info |-> [before |-> requirements_md]]
    /\ UNCHANGED <<items, bulk, hashseed, requests, flows>>

ReadSaved ==
    /\ LET res == read_requirements_file(requirements_md)
       IN last' = [op |-> "read_requirements_file", arg |-> [none |-> TRUE],
                   ret |-> res.ret, reqs |-> res.reqs, statuses |-> res.statuses,
                   info |-> [file |-> requirements_md, after |-> Previous]]
    /\ UNCHANGED <<items, bulk, hashseed, requests, requirements_md, flows>>

NextFile == \/ SaveRequirements
            \/ ReadSaved

SpecFile == InitFile /\ [][NextFile]_vars

(* ---------------------------- the feature workflow ---------------------- *)

(* The requests served at the same time.                                   *)
MaxFlows == 2

(* The feature names of the requests; the Feature is created under the     *)
(* exact name the user gave.                                               *)
FlowNames == {<<"S", "a">>, <<"S">>}

InitFlow == /\ items = <<>>
            /\ bulk = Idle
            /\ last = NoCall
            /\ hashseed = 0
            /\ requests = <<>>
            /\ requirements_md = NoFile
            /\ flows = <<>>

(* A request for the work-item agent arrives; its next step is the fourth  *)
(* of the workflow, the feature search.                                    *)
FlowBegin ==
    /\ Len(flows) < MaxFlows
    /\ \E name \in FlowNames :
         flows' = Append(flows, [feature_name |-> name, pc |-> "check", ret |-> <<>>, created |-> 0])
    /\ UNCHANGED <<items, bulk, last, hashseed, requests, requirements_md>>

(* FOURTH: check_existing_features; the feature is created next only when  *)
(* the search reported that none exists.                                   *)
FlowCheck ==
    /\ \E k \in DOMAIN flows, q \in QueryReplies :
         /\ flows[k].pc = "check"
         /\ LET res == check_existing_features(items, flows[k].feature_name, q.o1, q.o2, q.body)
            IN flows' = [flows EXCEPT ![k].ret = res.ret,
                                      ![k].pc = IF StartsWith(res.ret, OkMark) THEN "create" ELSE "done"]
    /\ UNCHANGED <<items, bulk, last, hashseed, requests, requirements_md>>

(* FIFTH: create_ado_feature under the name of the request.                *)
FlowCreate ==
    /\ \E k \in DOMAIN flows, r \in Replies :
         /\ flows[k].pc = "create"
         /\ LET res == create_ado_feature(items, flows[k].feature_name, <<"d1">>, r.o, r.body)
            IN /\ items' = res.items
               /\ flows' = [flows EXCEPT ![k].ret = res.ret, ![k].pc = "done",
                                         ![k].created = Len(res.items) - Len(items)]
    /\ UNCHANGED <<bulk, last, hashseed, requests, requirements_md>>

NextFlow == \/ FlowBegin
            \/ FlowCheck
            \/ FlowCreate

SpecFlow == InitFlow /\ [][NextFlow]_vars

(* ---------------------------- the agents -------------------------------- *)

(* The agents handed to create_supervisor, by name.                        *)
workflow_agents ==
    {"research_expert", "math_expert", "requirements_generator_agent", "ado_integration_agent"}

(* The agents the supervisor prompt describes and routes to.               *)
supervisor_prompt_agents ==
    {"requirements_generator_agent", "ado_integration_agent", "pbip_generator_agent"}

ado_integration_agent_tools ==
    {"read_requirements_file", "test_ado_connection", "check_existing_features",
     "create_ado_feature", "create_ado_user_story", "create_ado_task"}

(* ---------------------------- properties -------------------------------- *)

BulkOp == "bulk_update_work_items_state"

IsFailure(ret) == StartsWith(ret, ErrMark)

IsSuccess(ret) == StartsWith(ret, OkMark)

MatchingFeatures(its, name) ==
    {f \in Ids(its) : its[f].type = Feature /\ Contains(its[f].title, name)}

RECURSIVE IsBelow(_, _, _)
IsBelow(its, d, f) ==
    /\ its[d].parent # NoParent
    /\ (its[d].parent = f \/ IsBelow(its, its[d].parent, f))

Descendants(its, name) ==
    {d \in Ids(its) : \E f \in MatchingFeatures(its, name) : IsBelow(its, d, f)}

PatchRequests(reqs) == SelectSeq(reqs, LAMBDA q : q.method = "PATCH")

PatchIds(reqs) == [k \in 1..Len(PatchRequests(reqs)) |-> PatchRequests(reqs)[k].item]

Range(f) == {f[k] : k \in DOMAIN f}

(* The work-item types a filter is meant to select: those whose name       *)
(* contains the filter, letter case ignored.                               *)
ExpectedTypes(filter) ==
    CASE filter = NoFilter -> {Feature, UserStory, Task}
      [] filter = <<"s", "t", "o", "r", "y">> -> {UserStory}
      [] filter = <<"T", "a", "s", "k">> -> {Task}

(* C1: a bulk update whose feature name matches no Feature returns a       *)
(* failure, issues no PATCH request and leaves every item's state as it    *)
(* was before the call.                                                    *)
C1_NoMatchNoMutation ==
    (last.op = BulkOp /\ MatchingFeatures(items, last.arg.feature_name) = {})
    => /\ IsFailure(last.ret)
       /\ PatchIds(last.reqs) = <<>>
       /\ StatesOf(items) = last.info.before

C1_Witness ==
    /\ last.op = BulkOp
    /\ MatchingFeatures(items, last.arg.feature_name) = {}
    /\ \E f \in Ids(items) : items[f].type = Feature /\ Children(items, f) # {}
    /\ Contains(last.ret, <<"No work items found for feature">>)

C3_EveryItemAttempted ==
    (last.op = BulkOp /\ last.info.summary)
    => PatchIds(last.reqs)
         = [k \in 1..Len(last.info.work_items_to_update) |-> last.info.work_items_to_update[k].id]

C3_Witness ==
    /\ last.op = BulkOp
    /\ last.info.summary
    /\ Len(last.info.work_items_to_update) >= 2
    /\ IsFailure(last.info.results[1])
    /\ Len(PatchIds(last.reqs)) >= 2

(* C4: in the summary the succeeded and failed counts add up to the number *)
(* of selected items, and the outcome list has one line per selected item, *)
(* in processing order.                                                    *)
C4_CountsAddUp ==
    (last.op = BulkOp /\ last.info.summary)
    => LET sel == last.info.work_items_to_update
       IN /\ last.info.success_count + last.info.error_count = Len(sel)
          /\ Len(last.info.results) = Len(sel)
          /\ \A k \in 1..Len(sel) :
               /\ k <= Len(last.info.results)
               /\ Contains(last.info.results[k],
                           sel[k].type \o <<SP, "#">> \o Str(sel[k].id) \o <<SP>>)
          /\ Cardinality({k \in 1..Len(last.info.results) : IsSuccess(last.info.results[k])})
               = last.info.success_count
          /\ Contains(last.ret, <<"Details", ":", NL>> \o Join(last.info.results, <<NL>>))

C4_Witness ==
    /\ last.op = BulkOp
    /\ last.info.summary
    /\ last.info.success_count >= 1
    /\ last.info.error_count >= 1

(* C5: a successful descendants query returns every item below the matched *)
(* Feature, at any depth.                                                  *)
C5_TransitiveDescendants ==
    (last.op = "query_work_items_by_feature" /\ IsSuccess(last.ret))
    => Descendants(items, last.arg.feature_name) \subseteq Range(last.info.fetched)

(* C6: the matched Feature is never among the items the descendants query  *)
(* collects, and a bulk update never changes a Feature's state.            *)
C6_FeatureExcluded ==
    /\ last.op = "query_work_items_by_feature"
       => \A k \in 1..Len(last.info.fetched) : items[last.info.fetched[k]].type # Feature
    /\ last.op = BulkOp
       => \A f \in Ids(items) : items[f].type = Feature => items[f].state = last.info.before[f]

IsChildCreate == last.op \in {"create_ado_user_story", "create_ado_task"}

(* C7: creating a User Story or Task under a parent id that does not exist *)
(* returns a failure and adds no work item.                                *)
C7_MissingParentNoOrphan ==
    (IsChildCreate /\ last.arg.parent \notin 1..last.info.before)
    => /\ IsFailure(last.ret)
       /\ Len(items) = last.info.before

C7_Witness ==
    /\ IsChildCreate
    /\ last.arg.parent \notin 1..last.info.before
    /\ last.info.before >= 1
    /\ Contains(last.ret, Str(404))

(* C8: a User Story or Task creation issues exactly one request, a POST    *)
(* that carries the title and the parent relation, and no User Story or    *)
(* Task exists without its parent link.                                    *)
C8_SingleRequestWithLink ==
    /\ IsChildCreate
       => /\ Len(last.reqs) = 1
          /\ last.reqs[1].method = "POST"
          /\ last.reqs[1].title = last.arg.title
          /\ last.reqs[1].parent = last.arg.parent
    /\ \A k \in Ids(items) : items[k].type \in {UserStory, Task} => items[k].parent # NoParent

C8_Witness ==
    /\ last.op = "create_ado_task"
    /\ IsSuccess(last.ret)
    /\ Len(items) = last.info.before + 1
    /\ items[Len(items)].parent = last.arg.parent

IsFeatureCreated == last.op = "create_ado_feature" /\ IsSuccess(last.ret)

C10_TypedHierarchy ==
    \A k \in Ids(items) :
      /\ items[k].type = UserStory
         => items[k].parent \in Ids(items) /\ items[items[k].parent].type = Feature
      /\ items[k].type = Task
         => items[k].parent \in Ids(items) /\ items[items[k].parent].type = UserStory

IsUpdate == last.op = "update_work_item_state"

(* C11: a state update that asks for the state the item already has, as    *)
(* the second of two equal calls in a row does, leaves the item in that    *)
(* state and, when the service answers it, reports success.                *)
C11_UpdateIdempotent ==
    (/\ IsUpdate
     /\ last.arg.work_item_id \in DOMAIN last.info.before
     /\ last.info.before[last.arg.work_item_id] = last.arg.new_state)
    => /\ items[last.arg.work_item_id].state = last.arg.new_state
       /\ StatesOf(items) = last.info.before
       /\ last.info.o = "ok" => IsSuccess(last.ret)

C11_Witness ==
    /\ IsUpdate
    /\ last.arg.work_item_id \in DOMAIN last.info.before
    /\ last.info.before[last.arg.work_item_id] = "Active"
    /\ last.arg.new_state = "Active"
    /\ IsSuccess(last.ret)

(* C12: a state update issues exactly one request, the PATCH of the item   *)
(* carrying the requested state unchanged, whatever state the item is in,  *)
(* and when the service answers 200 the item has the requested state.      *)
C12_StateForwardedUnchanged ==
    IsUpdate
    => /\ last.reqs = <<Request("PATCH", "workItems", last.arg.work_item_id, NoParent,
                                last.arg.new_state, <<>>)>>
       /\ last.statuses = <<200>> => items[last.arg.work_item_id].state = last.arg.new_state

C12_Witness ==
    /\ IsUpdate
    /\ IsSuccess(last.ret)
    /\ last.info.before[last.arg.work_item_id] = "Active"
    /\ last.arg.new_state = InitialState
    /\ items[last.arg.work_item_id].state = InitialState

(* C13: no step removes a work item, and the only field of an existing     *)
(* work item that a step changes is its state.                             *)
C13_OnlyStateChanges ==
    [][/\ Len(items') >= Len(items)
       /\ \A k \in Ids(items) : [items'[k] EXCEPT !.state = items[k].state] = items[k]]_vars

C13_Witness ==
    /\ IsUpdate
    /\ Len(items) >= 2
    /\ last.arg.work_item_id \in Ids(items)
    /\ items[last.arg.work_item_id].state # last.info.before[last.arg.work_item_id]
    /\ items[last.arg.work_item_id].parent # NoParent

(* C14: inside a bulk update every step of the loop issues exactly one     *)
(* update request, for the next selected item, and records its outcome     *)
(* before the following request is issued; the requests of a finished call *)
(* follow the order in which the query returned the items.                 *)
C14_OneAtATimeInOrder ==
    [][/\ bulk.pc = "loop"
          => /\ Len(PatchIds(bulk.reqs)) = Len(bulk.results)
             /\ Len(bulk.results) = bulk.i - 1
             /\ \/ /\ bulk'.pc = "loop"
                   /\ bulk.i <= Len(bulk.work_items_to_update)
                   /\ bulk'.i = bulk.i + 1
                   /\ bulk'.reqs = Append(bulk.reqs,
                                         Request("PATCH", "workItems",
                                                 bulk.work_items_to_update[bulk.i].id, NoParent,
                                                 bulk.new_state, <<>>))
                   /\ Len(bulk'.results) = Len(bulk.results) + 1
                \/ /\ bulk'.pc = "idle"
                   /\ bulk.i = Len(bulk.work_items_to_update) + 1
                   /\ last'.reqs = bulk.reqs
       /\ last'.op = BulkOp
          => PatchIds(last'.reqs)
               = SelectSeq(last'.info.fetched,
                           LAMBDA id : id \in Range(PatchIds(last'.reqs)))]_vars

C14_Witness ==
    /\ bulk.pc = "loop"
    /\ Len(bulk.work_items_to_update) >= 3
    /\ bulk.i = 2
    /\ Len(PatchIds(bulk.reqs)) = 1

ClientOps == {"test_ado_connection", "check_existing_features", "create_ado_feature",
              "create_ado_user_story", "create_ado_task", "query_work_items_by_feature",
              "update_work_item_state"}

IsClientOp == last.op \in ClientOps

AllAnswered200 ==
    /\ last.statuses # <<>>
    /\ \A k \in 1..Len(last.statuses) : last.statuses[k] = 200

(* C15 as stated: an operation reports success exactly when every answer   *)
(* it received had status 200.                                             *)
C15_SuccessIffAll200 == IsClientOp => (~IsFailure(last.ret) <=> AllAnswered200)

(* C15 amended: an operation reports success only if every request it      *)
(* issued was answered with status 200; any other status, other 2xx codes  *)
(* included, yields a failure result; the connection test reports success  *)
(* on every 200 answer.                                                    *)
C15_SuccessOnlyIfAll200 ==
    IsClientOp
    => /\ ~IsFailure(last.ret) => AllAnswered200
       /\ (\E k \in 1..Len(last.statuses) : last.statuses[k] # 200) => IsFailure(last.ret)
       /\ (last.op = "test_ado_connection" /\ AllAnswered200) => IsSuccess(last.ret)

C15_Witness ==
    /\ last.op = "create_ado_feature"
    /\ last.statuses = <<202>>
    /\ IsFailure(last.ret)
    /\ HasToken(last.ret, OkMark)

(* C16: an operation issues each of its requests at most once, a request   *)
(* that was not answered with 200 is the last one it issues and the        *)
(* operation returns a failure, and a finished bulk update has issued one  *)
(* update request per selected item.                                       *)
C16_NoRetry ==
    /\ IsClientOp
       => /\ Len(last.reqs) <= 2
          /\ Len(last.statuses) = Len(last.reqs)
          /\ \A j \in 1..Len(last.reqs), k \in 1..Len(last.reqs) :
               j # k => last.reqs[j] # last.reqs[k]
          /\ \A k \in 1..Len(last.statuses) :
               last.statuses[k] # 200 => k = Len(last.reqs) /\ IsFailure(last.ret)
    /\ (last.op = BulkOp /\ last.info.summary)
       => Len(PatchRequests(last.reqs)) = Len(last.info.work_items_to_update)

C16_Witness ==
    /\ last.op = "check_existing_features"
    /\ FeaturesNamed(items, last.arg.feature_name) # <<>>
    /\ last.statuses = <<NoResponse>>
    /\ Len(last.reqs) = 1

(* C17: every tool call returns a text, and every failure appears in it: a *)
(* call with a request that was not answered with 200, or without a        *)
(* readable requirements file, returns a failure text, and a bulk update   *)
(* lists a failure for every selected item it did not bring to the new     *)
(* state.                                                                  *)
C17_EveryFailureReported ==
    /\ last # NoCall => last.ret # <<>>
    /\ (IsClientOp /\ \E k \in 1..Len(last.statuses) : last.statuses[k] # 200)
       => IsFailure(last.ret)
    /\ (last.op = "read_requirements_file" /\ last.info.file.kind # "present")
       => IsFailure(last.ret)
    /\ (last.op = BulkOp /\ ~AllAnswered200) => IsFailure(last.ret)
    /\ (last.op = BulkOp /\ last.info.summary)
       => \A k \in 1..Len(last.info.results) :
            items[last.info.work_items_to_update[k].id].state # last.arg.new_state
            => /\ IsFailure(last.info.results[k])
               /\ Contains(last.ret, last.info.results[k])

StateTools == {"query_work_items_by_feature", "update_work_item_state", BulkOp}

(* C20: each of the tools that query the work items under a feature and    *)
(* update work-item states is in the tool set of the ado_integration_agent,*)
(* so that whenever one of them runs it is a tool that agent can call.     *)
C20_StateToolsInAgent == last.op \in StateTools => last.op \in ado_integration_agent_tools

(* The positions of the AI and tool messages of a workflow result.         *)
Kept(result) ==
    {i \in DOMAIN result :
       result[i].class \in {"AIMessage", "AIMessageChunk", "ToolMessage"}}

KindOf(m) == IF m.class = "ToolMessage" THEN "tool" ELSE "ai"

(* C21: the response of /ask lists exactly the AI and tool messages of the *)
(* workflow result, each as its kind and its content, in their original    *)
(* order: the n-th kept message of the result is the n-th entry.           *)
C21_ResponseIsOrderedSubsequence ==
    \A k \in DOMAIN requests :
      requests[k].stage = "answered" =>
        LET result == requests[k].result
            response == requests[k].response
        IN /\ Len(response) = Cardinality(Kept(result))
           /\ \A i \in Kept(result) :
                response[Cardinality({j \in Kept(result) : j <= i})]
                  = [type |-> KindOf(result[i]), content |-> result[i].content]

C21_Witness ==
    \E k \in DOMAIN requests :
      /\ requests[k].stage = "answered"
      /\ Len(requests[k].result) = 4
      /\ requests[k].result[1].class = "HumanMessage"
      /\ Len(requests[k].response) = 3
      /\ requests[k].response[1].type = "tool"
      /\ requests[k].response[3].type = "ai"

LoadedHeader == <<OkMark, SP, "Requirements file loaded successfully!", NL, NL, "Content", ":", NL>>

(* A read that directly follows a save that reported success.              *)
ReadAfterSave ==
    /\ last.op = "read_requirements_file"
    /\ "after" \in DOMAIN last.info
    /\ last.info.after.op = "save_requirements_file"
    /\ StartsWith(last.info.after.ret, OkMark)

(* C22 as stated: a read that follows a successful save returns a success  *)
(* result whose content is exactly the saved content.                      *)
C22_ReadReturnsSavedContent ==
    ReadAfterSave => last.ret = LoadedHeader \o last.info.after.arg.content

LineEnds(t) == SelectSeq(t, LAMBDA c : c \in {NL, CR})

(* C22, amended: the read returns a success result that holds nothing of   *)
(* the file's earlier content; it is exactly the saved content when that   *)
(* holds no carriage return, and otherwise differs from it only in line    *)
(* ends, none of which is read back as a carriage return.                  *)
C22_ReadReturnsSavedText ==
    ReadAfterSave =>
      LET content == last.info.after.arg.content
          loaded == SubSeq(last.ret, Len(LoadedHeader) + 1, Len(last.ret))
      IN /\ SubSeq(last.ret, 1, Len(LoadedHeader)) = LoadedHeader
         /\ ~HasToken(content, CR) => loaded = content
         /\ SelectSeq(loaded, LAMBDA c : c \notin {NL, CR}) = SelectSeq(content, LAMBDA c : c \notin {NL, CR})
         /\ ~HasToken(loaded, CR)
         /\ Len(loaded) <= Len(content)

C22_Witness ==
    /\ ReadAfterSave
    /\ last.info.after.before.kind = "present"
    /\ last.info.after.before.content = <<"REQ", "REQ">>
    /\ last.info.after.arg.content = <<NL>>
    /\ last.ret = LoadedHeader \o <<NL>>

IsCheck == last.op = "check_existing_features"

(* C23: a feature search whose query is answered and matches no Feature    *)
(* returns a success result after that one request; whatever the search    *)
(* finds and reports is a Feature, never a User Story or a Task.           *)
C23_EmptyMatchIsSuccess ==
    IsCheck =>
      /\ (last.info.o1 = "ok" /\ MatchingFeatures(items, last.arg.feature_name) = {}) =>
            /\ IsSuccess(last.ret)
            /\ ~HasToken(last.ret, ErrMark)
            /\ Len(last.reqs) = 1
            /\ last.reqs[1].method = "POST"
      /\ \A k \in DOMAIN last.info.found : items[last.info.found[k]].type = Feature
      /\ \A id \in Ids(items) :
            items[id].type # Feature =>
              ~Contains(last.ret, <<"ID", ":", SP>> \o Str(id) \o <<SP, "|">>)

C23_Witness ==
    /\ IsCheck
    /\ last.info.o1 = "ok"
    /\ \E f \in Ids(items) : items[f].type = Feature
    /\ MatchingFeatures(items, last.arg.feature_name) = {}
    /\ \E t \in Ids(items) :
         items[t].type = Task /\ Contains(items[t].title, last.arg.feature_name)
    /\ IsSuccess(last.ret)
    /\ Len(last.reqs) = 1

Occurrences(seq, x) == Cardinality({k \in DOMAIN seq : seq[k] = x})

(* The outcome lines of a bulk update that name the work item id.          *)
OutcomeLines(results, id) ==
    {k \in DOMAIN results : Contains(results[k], <<"#">> \o Str(id) \o <<SP>>)}

(* C24: when an unfiltered bulk update returns its summary, a work item    *)
(* that the fetched descendant list holds k times has been sent k update    *)
(* requests and has k outcome lines, each counted as a success or failure. *)
C24_DuplicatesUpdatedAgain ==
    (last.op = BulkOp /\ last.info.summary /\ last.arg.filter = NoFilter) =>
      /\ \A id \in Range(last.info.fetched) :
            /\ Occurrences(PatchIds(last.reqs), id) = Occurrences(last.info.fetched, id)
            /\ Cardinality(OutcomeLines(last.info.results, id)) = Occurrences(last.info.fetched, id)
      /\ last.info.success_count + last.info.error_count = Len(last.info.results)

C24_Witness ==
    /\ last.op = BulkOp
    /\ last.info.summary
    /\ last.arg.filter = NoFilter
    /\ last.info.fetched = <<3, 3>>
    /\ PatchIds(last.reqs) = <<3, 3>>
    /\ last.info.success_count = 1
    /\ last.info.error_count = 1
    /\ IsFailure(last.info.results[1])
    /\ IsSuccess(last.info.results[2])

(* C25: requests to /ask with different query text have different          *)
(* thread_ids.                                                             *)
C25_DistinctQueriesDistinctThreads ==
    \A j \in DOMAIN requests, k \in DOMAIN requests :
      requests[j].query # requests[k].query => requests[j].thread_id # requests[k].thread_id

(* C26: at most one Feature carries the feature name of a request, however *)
(* the steps of the requests served at the same time interleave.           *)
C26_AtMostOneFeaturePerName ==
    \A k \in DOMAIN flows :
      Cardinality({f \in Ids(items) : items[f].type = Feature
                                     /\ items[f].title = flows[k].feature_name}) <= 1

(* C27: whenever a request is handed to the workflow, every agent the      *)
(* supervisor prompt routes to is an agent of the workflow, and every      *)
(* agent of the workflow is described in the supervisor prompt.            *)
C27_PromptAgentsAreRegistered ==
    \A k \in DOMAIN requests :
      requests[k].stage = "invoked" =>
        /\ supervisor_prompt_agents \subseteq workflow_agents
        /\ workflow_agents \subseteq supervisor_prompt_agents

(* C28: in the summary of a bulk update an item's outcome line is a        *)
(* success line exactly when the update request for that item was answered *)
(* with status 200.                                                        *)
C28_SuccessIffStatus200 ==
    (last.op = BulkOp /\ last.info.summary) =>
      \A k \in DOMAIN last.info.results :
        IsSuccess(last.info.results[k]) <=> last.info.patch_statuses[k] = 200

Selected(sel) == {[id |-> sel[k].id, type |-> sel[k].type] : k \in DOMAIN sel}

FetchedPairs(its, fetched) ==
    {[id |-> fetched[k], type |-> TypeName(its[fetched[k]].type)] : k \in DOMAIN fetched}

(* C29: an unfiltered bulk update whose query fetched items selects, by     *)
(* parsing the query's text, exactly the (id, type) pairs of the fetched    *)
(* items, whatever characters the titles of the items hold.                *)
C29_ParsedEqualsFetched ==
    (last.op = BulkOp /\ last.arg.filter = NoFilter /\ last.info.fetched # <<>>) =>
      Selected(last.info.work_items_to_update) = FetchedPairs(items, last.info.fetched)

(* The descendants query of the last bulk update failed: a request was not *)
(* answered with 200, or an answer could not be read.                      *)
BulkQueryFailed ==
    \/ \E k \in DOMAIN last.statuses : last.statuses[k] # 200
    \/ last.info.query.o1 = "malformed"
    \/ (Len(last.statuses) = 2 /\ last.info.query.o2 = "malformed")

QueryFailureTexts ==
    {<<"Failed to query work items">>, <<"Failed to get work item details">>,
     <<"Error querying work items">>}

(* C30: a bulk update whose descendants query failed returns the failure   *)
(* text of the query, has issued no update request, and leaves every work  *)
(* item in the state it had before the call.                               *)
C30_QueryFailureStopsBulk ==
    (last.op = BulkOp /\ BulkQueryFailed) =>
      /\ IsFailure(last.ret)
      /\ \E t \in QueryFailureTexts : SubSeq(last.ret, 3, 3) = t
      /\ ~last.info.summary
      /\ PatchRequests(last.reqs) = <<>>
      /\ Len(last.reqs) = Len(last.statuses)
      /\ StatesOf(items) = last.info.before

C30_Witness ==
    /\ last.op = BulkOp
    /\ last.statuses = <<200, 202>>
    /\ HasToken(last.ret, OkMark)
    /\ IsFailure(last.ret)
    /\ \E d \in Ids(items) : items[d].parent # NoParent /\ items[d].state = "New"
    /\ PatchRequests(last.reqs) = <<>>

====
